---- MODULE Spec2Model ----
(***************************************************************************)
(* Project lifecycle, draft state machine, asset promotion and the         *)
(* VirusTotal rate limiter of backend-devhub, as state machines.           *)
(*                                                                         *)
(* One project document (db) and one Cloudinary account (storage) are      *)
(* modelled.  A Cloudinary public id is a record [loc, kind, name]:        *)
(*   softstore/temp/<kind>/<name>            loc = "temp"                  *)
(*   softstore/updates/<id>/<kind>/<name>    loc = "updates"               *)
(*   softstore/projects/<id>/<kind>/<name>   loc = "projects"              *)
(*   softstore/<id>/<kind>/<name>            loc = "own"                   *)
(* A secure URL is represented by the public id it serves.  Of the text     *)
(* fields title, shortDesc and longDesc, which every handler treats with   *)
(* the same statements, shortDesc is carried.                              *)
(***************************************************************************)
EXTENDS Integers, Sequences, FiniteSets, TLC

VARIABLES
  db,        \* the persisted Project document (Project.ts schema)
  storage,   \* set of public ids that exist in Cloudinary
  resp,      \* the HTTP response of the handler that ran last
  pc,        \* per request: position in its handler (interleaved specification)
  loaded,    \* per request: the document instance returned by findById
  rev,       \* number of document writes committed so far
  now,       \* wall clock in milliseconds (Date.now())
  lastRequestTime,    \* AntivirusService.lastRequestTime
  dailyRequestCount,  \* AntivirusService.dailyRequestCount
  lastResetDate,      \* AntivirusService.lastResetDate (a day number)
  currentDate,        \* the day new Date().toDateString() names
  scanPc,    \* per scan call: position inside rateLimitCheck
  wakeAt,    \* per scan call: time at which its setTimeout fires
  dispatched, \* the times at which requests left for VirusTotal, in order
  vt,        \* what VirusTotal holds for the hash of the buffer being scanned
  call,      \* per scan call: position inside scanWithVirusTotal, retries, the
             \* delay and the end of the wait it is in, result
  sent,      \* number of requests of each kind that left for VirusTotal
  report,    \* a VirusTotalReportResponse handed to the normalisation
  scanResult, \* the VirusTotalScanResult made from it
  deleteThrows, \* whether the destroy call of deleteFromCloudinary fails at present
  infoThrows \* whether the resource lookup of getFileInfo fails at present

vars == <<db, storage, resp, pc, loaded, rev, now, lastRequestTime,
          dailyRequestCount, lastResetDate, currentDate, scanPc, wakeAt, dispatched,
          vt, call, sent, report, scanResult, deleteThrows, infoThrows>>

lifecycleVars == <<db, storage, resp>>
concVars == <<pc, loaded, rev>>
scanVars == <<now, lastRequestTime, dailyRequestCount, lastResetDate, currentDate,
              scanPc, wakeAt, dispatched>>
vtVars == <<vt, call, sent>>
reportVars == <<report, scanResult>>

----------------------------------------------------------------------------
(* Bounds of the model *)

MaxImages == 1
MaxNames == 2
MaxDispatch == 3
MaxTime == 8
MaxDays == 1
MaxRequests == 5

\* constants of AntivirusService
RATE_LIMIT_DELAY == 15000
DAILY_LIMIT == 500
MAX_RETRIES == 10
POLL_WAIT == 10000
POLL_WAIT_STEP == 2000
POLL_WAIT_MAX == 30000
ERROR_WAIT == 5000

----------------------------------------------------------------------------
(* Public ids *)

NoHandle == [loc |-> "none", kind |-> "none", name |-> "none"]

Handle(loc, kind, name) == [loc |-> loc, kind |-> kind, name |-> name]

\* file names carry Date.now(), so every upload gets a name of its own
NamePool == <<"f1", "f2", "f3", "f4", "f5">>

Names == {NamePool[i] : i \in 1..MaxNames}

\* publicId.includes('/temp/')
IsTemp(h) == h.loc = "temp"

\* publicId.includes('/updates/')
IsUpdates(h) == h.loc = "updates"

\* resource type an object is stored under: image/* uploads are 'image', others 'raw'
StoredType(h) == IF h.kind \in {"icons", "images"} THEN "image" ELSE "raw"

getUploadFolder(hasProjectId, isUpdate) ==
  IF ~hasProjectId THEN "temp"
  ELSE IF isUpdate THEN "updates"
  ELSE "projects"

\* getFileInfo: cloudinary.api.resource(publicId) with the default resource
\* type 'image'; null (NoHandle) when the lookup throws, because there is no
\* such image or because the request fails
getFileInfo(st, h) ==
  IF ~infoThrows /\ h \in st /\ StoredType(h) = "image" THEN h ELSE NoHandle

\* a variant of moveCloudinaryFiles that destroys the original before the copy
\* is known to exist
moveDestroyFirst(st, h, kind, fault) ==
  LET new == Handle("projects", kind, h.name) IN
  IF h \notin st \/ fault = "resource"
    THEN [ok |-> FALSE, storage |-> st, id |-> h]
  ELSE IF fault = "upload"
    THEN [ok |-> FALSE, storage |-> st \ {h}, id |-> h]
  ELSE IF fault = "destroy"
    THEN [ok |-> FALSE, storage |-> st \cup {new}, id |-> h]
  ELSE [ok |-> TRUE, storage |-> (st \cup {new}) \ {h}, id |-> new]

\* moveCloudinaryFiles(publicId, softstore/projects/<id>/<kind>):
\* resource lookup, upload of a copy under the new folder, destroy of the
\* original; fault names the remote call that throws ("none": no call throws)
moveCloudinaryFiles(st, h, kind, fault) ==
  LET new == Handle("projects", kind, h.name) IN
  IF h \notin st \/ fault = "resource"
    THEN [ok |-> FALSE, storage |-> st, id |-> h]
  ELSE IF fault = "upload"
    THEN [ok |-> FALSE, storage |-> st, id |-> h]
  ELSE IF fault = "destroy"
    THEN [ok |-> FALSE, storage |-> st \cup {new}, id |-> h]
  ELSE [ok |-> TRUE, storage |-> (st \cup {new}) \ {h}, id |-> new]

\* deleteFromCloudinary: the resource type is guessed from the public id
\* ('video_' / 'app_' -> raw, otherwise image); destroy of an object stored
\* under another type answers 'not found', which is accepted; a destroy call
\* that fails makes it throw and leaves the object, and every caller (.catch,
\* Promise.allSettled) goes on
HasRawTag(name) == name \in {"app_f"}

DeleteResourceType(h) == IF HasRawTag(h.name) THEN "raw" ELSE "image"

deleteFromCloudinary(st, h) ==
  IF ~deleteThrows /\ h \in st /\ StoredType(h) = DeleteResourceType(h)
    THEN st \ {h} ELSE st

RECURSIVE deleteAll(_, _)
deleteAll(st, hs) ==
  IF hs = {} THEN st
  ELSE LET h == CHOOSE x \in hs : TRUE IN
       deleteAll(deleteFromCloudinary(st, h), hs \ {h})

----------------------------------------------------------------------------
(* The Project document *)

NoScan == [present |-> FALSE, isSafe |-> FALSE, scanId |-> "none"]

Scan(isSafe, scanId) == [present |-> TRUE, isSafe |-> isSafe, scanId |-> scanId]

NoFile == [publicId |-> NoHandle, url |-> NoHandle, virusScan |-> NoScan]

File(h, scan) == [publicId |-> h, url |-> h, virusScan |-> scan]

NoFiles == [code |-> NoFile, docPdf |-> NoFile]

\* DraftChanges with every field undefined
NoDraft ==
  [shortDesc |-> "undef",
   iconPublicId |-> NoHandle, iconUrl |-> NoHandle,
   imagePublicIds |-> <<>>, imageUrls |-> <<>>,
   hasFiles |-> FALSE, files |-> NoFiles]

NoDoc ==
  [exists |-> FALSE, status |-> "pending", publishedAt |-> FALSE,
   shortDesc |-> "d1",
   iconPublicId |-> NoHandle, iconUrl |-> NoHandle,
   imagePublicIds |-> <<>>, imageUrls |-> <<>>,
   files |-> NoFiles,
   draftStatus |-> "none", draft |-> NoDraft,
   draftSubmitted |-> FALSE, draftFeedback |-> FALSE, draftRejected |-> FALSE]

Range(s) == {s[i] : i \in DOMAIN s}

\* public ids the live fields reference
LiveRefs(p) ==
  ({p.iconPublicId} \cup Range(p.imagePublicIds)
     \cup {p.files.code.publicId, p.files.docPdf.publicId}) \ {NoHandle}

\* public ids the draft references
DraftRefs(p) ==
  ({p.draft.iconPublicId} \cup Range(p.draft.imagePublicIds)
     \cup {p.draft.files.code.publicId, p.draft.files.docPdf.publicId}) \ {NoHandle}

\* the live, publicly visible content of a project
Live(p) ==
  [shortDesc |-> p.shortDesc,
   iconPublicId |-> p.iconPublicId, iconUrl |-> p.iconUrl,
   imagePublicIds |-> p.imagePublicIds, imageUrls |-> p.imageUrls,
   files |-> p.files]

\* Array.prototype.indexOf (first index, 0 when absent)
indexOf(s, x) ==
  IF x \in Range(s) THEN CHOOSE i \in DOMAIN s : s[i] = x /\ \A j \in 1..(i-1) : s[j] # x
  ELSE 0

\* arr?.[i] || ''
urlAt(s, i) == IF i \in DOMAIN s THEN s[i] ELSE NoHandle

\* scanId: the virusScan.scanId an upload answers with
Response(op, code) ==
  [op |-> op, code |-> code, fault |-> FALSE, admin |-> FALSE, scanId |-> "none"]

----------------------------------------------------------------------------
(* Request inputs *)

FaultKinds == {"resource", "upload", "destroy"}

\* the remote call, if any, that throws while moving each public id
FaultMaps(hs) ==
  {[h \in hs |-> IF h \in bad THEN mode ELSE "none"] :
     bad \in SUBSET hs, mode \in FaultKinds}

Verdicts == {NoScan, Scan(TRUE, "real"), Scan(FALSE, "real")}

Stored(st, kind) == {h \in st : h.kind = kind}

SeqsUpTo(S, n) == UNION {[1..k -> S] : k \in 0..n}

FileInputs(st, kind, V) ==
  {NoFile} \cup {File(h, v) : h \in Stored(st, kind), v \in V}

\* bodies accepted by projectSchema whose public ids were uploaded before
CreateBodies(st, V) ==
  [iconPublicId : {NoHandle} \cup Stored(st, "icons"),
   imagePublicIds : SeqsUpTo(Stored(st, "images"), MaxImages),
   code : FileInputs(st, "code", V),
   docPdf : FileInputs(st, "docs", V)]

----------------------------------------------------------------------------
(* Handlers, each run to completion *)

createProject(body) ==
  /\ ~db.exists
  /\ db' = [NoDoc EXCEPT !.exists = TRUE, !.status = "pending",
                         !.iconPublicId = body.iconPublicId,
                         !.iconUrl = body.iconPublicId,
                         !.imagePublicIds = body.imagePublicIds,
                         !.imageUrls = body.imagePublicIds,
                         !.files = [code |-> body.code, docPdf |-> body.docPdf]]
  /\ resp' = Response("createProject", 201)
  /\ UNCHANGED storage

\* the status writes of the moderation handlers
markPending(p) == [p EXCEPT !.status = "pending"]

markNeedsReview(p) == [p EXCEPT !.status = "needs_author_review"]

markRejected(p) == [p EXCEPT !.status = "rejected"]

markPublished(p) == [p EXCEPT !.status = "published", !.publishedAt = TRUE]

\* resubmitProject's check of the current status
canResubmit(p) == p.status \in {"rejected", "needs_author_review"}

resubmitProject ==
  /\ db.exists
  /\ IF ~canResubmit(db)
       THEN /\ resp' = Response("resubmitProject", 400)
            /\ UNCHANGED db
       ELSE /\ db' = markPending(db)
            /\ resp' = Response("resubmitProject", 200)
  /\ UNCHANGED storage

\* the response after the document was saved: a notification error is caught
\* by the handler's outer catch and answered with 400
AfterNotify(notifyOk) == IF notifyOk THEN 200 ELSE 400

sendToAuthor(notifyOk) ==
  /\ db.exists
  /\ db' = markNeedsReview(db)
  /\ resp' = Response("sendToAuthor", AfterNotify(notifyOk))
  /\ UNCHANGED storage

rejectProject(notifyOk) ==
  /\ db.exists
  /\ db' = markRejected(db)
  /\ resp' = Response("rejectProject", AfterNotify(notifyOk))
  /\ UNCHANGED storage

\* one pass of the image loop of publishProject, from index i on; acc carries
\* the storage, movedImages, movedUrls, filesMoved and whether a move threw
RECURSIVE publishImages(_, _, _, _)
publishImages(p, faults, i, acc) ==
  IF i > Len(p.imagePublicIds) THEN acc
  ELSE
    LET imageId == p.imagePublicIds[i]
        keptUrl == urlAt(p.imageUrls, indexOf(p.imagePublicIds, imageId))
        m == moveCloudinaryFiles(acc.storage, imageId, "images", faults[imageId])
    IN IF IsTemp(imageId)
         THEN IF m.ok
           THEN publishImages(p, faults, i + 1,
                  [storage |-> m.storage,
                   ids |-> Append(acc.ids, m.id),
                   urls |-> Append(acc.urls, getFileInfo(m.storage, m.id)),
                   filesMoved |-> TRUE, failed |-> acc.failed])
           ELSE publishImages(p, faults, i + 1,
                  [storage |-> m.storage,
                   ids |-> Append(acc.ids, imageId),
                   urls |-> Append(acc.urls, keptUrl),
                   filesMoved |-> acc.filesMoved, failed |-> TRUE])
         ELSE publishImages(p, faults, i + 1,
                [acc EXCEPT !.ids = Append(acc.ids, imageId),
                            !.urls = Append(acc.urls, keptUrl)])

\* the url a moved file gets: the new secure url when getFileInfo answers,
\* else the url it had
movedUrl(st, newId, oldUrl) ==
  IF getFileInfo(st, newId) # NoHandle THEN getFileInfo(st, newId) ELSE oldUrl

\* the icon block of publishProject; acc carries the document in memory, the
\* storage, filesMoved and whether a move threw (each throw is caught)
publishIcon(acc, faults) ==
  LET h == acc.doc.iconPublicId
      m == moveCloudinaryFiles(acc.storage, h, "icons", faults[h])
  IN IF ~IsTemp(h) THEN acc
     ELSE IF m.ok
       THEN [acc EXCEPT !.doc.iconPublicId = m.id,
                        !.doc.iconUrl = movedUrl(m.storage, m.id, @),
                        !.storage = m.storage,
                        !.filesMoved = TRUE]
       ELSE [acc EXCEPT !.storage = m.storage, !.failed = TRUE]

\* the images block of publishProject
publishImagesBlock(acc, faults) ==
  LET im == publishImages(acc.doc, faults, 1,
              [storage |-> acc.storage, ids |-> <<>>, urls |-> <<>>,
               filesMoved |-> acc.filesMoved, failed |-> acc.failed])
  IN IF Len(acc.doc.imagePublicIds) > 0 /\ im.filesMoved
       THEN [doc |-> [acc.doc EXCEPT !.imagePublicIds = im.ids, !.imageUrls = im.urls],
             storage |-> im.storage, filesMoved |-> im.filesMoved, failed |-> im.failed]
       ELSE [acc EXCEPT !.storage = im.storage, !.failed = im.failed]

\* the code block of publishProject
publishCode(acc, faults) ==
  LET h == acc.doc.files.code.publicId
      m == moveCloudinaryFiles(acc.storage, h, "code", faults[h])
  IN IF ~IsTemp(h) THEN acc
     ELSE IF m.ok
       THEN [acc EXCEPT !.doc.files.code.publicId = m.id,
                        !.doc.files.code.url = movedUrl(m.storage, m.id, @),
                        !.storage = m.storage]
       ELSE [acc EXCEPT !.storage = m.storage, !.failed = TRUE]

\* the documentation block of publishProject
publishDoc(acc, faults) ==
  LET h == acc.doc.files.docPdf.publicId
      m == moveCloudinaryFiles(acc.storage, h, "docs", faults[h])
  IN IF ~IsTemp(h) THEN acc
     ELSE IF m.ok
       THEN [acc EXCEPT !.doc.files.docPdf.publicId = m.id,
                        !.doc.files.docPdf.url = movedUrl(m.storage, m.id, @),
                        !.storage = m.storage]
       ELSE [acc EXCEPT !.storage = m.storage, !.failed = TRUE]

\* publishProject up to project.save(): the document to save, the storage
\* after the moves, and whether some move threw
publishOutcome(p, st, faults) ==
  publishDoc(
    publishCode(
      publishImagesBlock(
        publishIcon([doc |-> markPublished(p), storage |-> st,
                     filesMoved |-> FALSE, failed |-> FALSE], faults),
        faults),
      faults),
    faults)

\* a variant of publishProject that saves nothing when a move threw
publishProjectAtomic(faults, notifyOk) ==
  /\ db.exists
  /\ LET out == publishOutcome(db, storage, faults) IN
       IF out.failed
         THEN /\ resp' = [Response("publishProject", 400) EXCEPT !.fault = TRUE]
              /\ UNCHANGED <<db, storage>>
         ELSE /\ db' = out.doc
              /\ storage' = out.storage
              /\ resp' = Response("publishProject", AfterNotify(notifyOk))

publishProject(faults, notifyOk) ==
  /\ db.exists
  /\ LET out == publishOutcome(db, storage, faults) IN
       /\ db' = out.doc
       /\ storage' = out.storage
       /\ resp' = [Response("publishProject", AfterNotify(notifyOk))
                     EXCEPT !.fault = out.failed]

\* request bodies of PUT /projects/:id; "undef" / NoHandle / hasX = FALSE
\* stand for a field the body does not carry
UpdateBodies(st, V) ==
  {b \in [shortDesc : {"undef", "d2"},
          iconPublicId : {NoHandle} \cup Stored(st, "icons"),
          hasImages : BOOLEAN,
          imagePublicIds : SeqsUpTo(Stored(st, "images"), MaxImages),
          hasFiles : BOOLEAN,
          code : FileInputs(st, "code", V),
          docPdf : FileInputs(st, "docs", V)] :
     /\ ~b.hasImages => b.imagePublicIds = <<>>
     /\ ~b.hasFiles => b.code = NoFile /\ b.docPdf = NoFile}

\* draftChanges as built by the draft branch of updateProject
draftChanges(p, body) ==
  LET d2 == IF body.shortDesc # "undef" /\ body.shortDesc # p.shortDesc
              THEN [NoDraft EXCEPT !.shortDesc = body.shortDesc] ELSE NoDraft
      d3 == IF body.iconPublicId # NoHandle /\ body.iconPublicId # p.iconPublicId
              THEN [d2 EXCEPT !.iconPublicId = body.iconPublicId,
                              !.iconUrl = body.iconPublicId]
              ELSE d2
      d4 == IF body.hasImages /\ body.imagePublicIds # p.imagePublicIds
              THEN [d3 EXCEPT !.imagePublicIds = body.imagePublicIds,
                              !.imageUrls = body.imagePublicIds]
              ELSE d3
      d5 == IF body.hasFiles
              THEN [d4 EXCEPT !.hasFiles = TRUE,
                     !.files = [code |-> IF body.code # NoFile THEN body.code
                                         ELSE p.files.code,
                                docPdf |-> IF body.docPdf # NoFile THEN body.docPdf
                                           ELSE p.files.docPdf]]
              ELSE d4
  IN d5

\* hasChanges of the draft branch
hasChanges(p, body) ==
  \/ body.shortDesc # "undef" /\ body.shortDesc # p.shortDesc
  \/ body.iconPublicId # NoHandle /\ body.iconPublicId # p.iconPublicId
  \/ body.hasImages /\ body.imagePublicIds # p.imagePublicIds
  \/ body.hasFiles /\ (body.code # NoFile \/ body.docPdf # NoFile)

\* a variant of saveDraft that also writes the proposed text to the live field
saveDraftAndLive(p, d) ==
  [p EXCEPT !.draft = d, !.draftStatus = "pending", !.draftSubmitted = TRUE,
            !.draftFeedback = FALSE, !.draftRejected = FALSE,
            !.shortDesc = IF d.shortDesc # "undef" THEN d.shortDesc ELSE @]

\* the draft branch's writes to the document
saveDraft(p, d) ==
  [p EXCEPT !.draft = d, !.draftStatus = "pending", !.draftSubmitted = TRUE,
            !.draftFeedback = FALSE, !.draftRejected = FALSE]

RECURSIVE fileInfoUrls(_, _)
\* newUrls.filter(Boolean) of the direct-edit branch
fileInfoUrls(st, ids) ==
  IF ids = <<>> THEN <<>>
  ELSE LET u == getFileInfo(st, Head(ids)) IN
       IF u = NoHandle THEN fileInfoUrls(st, Tail(ids))
       ELSE <<u>> \o fileInfoUrls(st, Tail(ids))

\* the direct-edit branch of updateProject: the fields are assigned from the
\* body first, so every later "old versus new" comparison sees equal values
\* and deletes nothing
directEdit(p, st, body) ==
  LET p1 == IF body.iconPublicId # NoHandle
              THEN [p EXCEPT !.iconPublicId = body.iconPublicId,
                             !.iconUrl = body.iconPublicId]
              ELSE p
      p2 == IF body.hasImages
              THEN [p1 EXCEPT !.imagePublicIds = body.imagePublicIds,
                              !.imageUrls = fileInfoUrls(st, body.imagePublicIds)]
              ELSE p1
      p3 == IF body.hasFiles /\ body.code # NoFile
              THEN [p2 EXCEPT !.files.code = body.code] ELSE p2
      p4 == IF body.hasFiles /\ body.docPdf # NoFile
              THEN [p3 EXCEPT !.files.docPdf = body.docPdf] ELSE p3
  IN p4

updateProject(body, isAdmin) ==
  /\ db.exists
  /\ UNCHANGED storage
  /\ IF db.status = "published" /\ ~isAdmin
       THEN IF ~hasChanges(db, body)
         THEN /\ resp' = [Response("updateProject", 400) EXCEPT !.admin = isAdmin]
              /\ UNCHANGED db
         ELSE /\ db' = saveDraft(db, draftChanges(db, body))
              /\ resp' = [Response("updateProject", 200) EXCEPT !.admin = isAdmin]
       ELSE /\ db' = directEdit(db, storage, body)
            /\ resp' = [Response("updateProject", 200) EXCEPT !.admin = isAdmin]

\* an applyDraft that copies every field of the draft, set or not
applyDraftWhole(p) ==
  [p EXCEPT
     !.shortDesc = IF p.draft.shortDesc # "undef" THEN p.draft.shortDesc ELSE @,
     !.iconPublicId = p.draft.iconPublicId,
     !.iconUrl = p.draft.iconUrl,
     !.imagePublicIds = p.draft.imagePublicIds,
     !.imageUrls = p.draft.imageUrls,
     !.files = p.draft.files]

\* Project.applyDraft
applyDraft(p) ==
  LET d == p.draft
      f0 == p.files
      f1 == IF d.hasFiles /\ d.files.code # NoFile
              THEN [f0 EXCEPT !.code = d.files.code] ELSE f0
      f2 == IF d.hasFiles /\ d.files.docPdf # NoFile
              THEN [f1 EXCEPT !.docPdf = d.files.docPdf] ELSE f1
  IN [p EXCEPT
        !.shortDesc = IF d.shortDesc # "undef" THEN d.shortDesc ELSE @,
        !.iconPublicId = IF d.iconPublicId # NoHandle THEN d.iconPublicId ELSE @,
        !.iconUrl = IF d.iconUrl # NoHandle THEN d.iconUrl ELSE @,
        !.imagePublicIds = IF Len(d.imagePublicIds) > 0 THEN d.imagePublicIds ELSE @,
        !.imageUrls = IF Len(d.imageUrls) > 0 THEN d.imageUrls ELSE @,
        !.files = f2]

\* a clearDraft that resets the draft and its status but keeps the feedback
\* and the dates
clearDraftOnly(p) == [p EXCEPT !.draft = NoDraft, !.draftStatus = "none"]

\* Project.clearDraft
clearDraft(p) ==
  [p EXCEPT !.draft = NoDraft, !.draftStatus = "none", !.draftSubmitted = FALSE,
            !.draftFeedback = FALSE, !.draftRejected = FALSE]

\* the image loop of approveDraft from index i on; the first move that throws
\* ends the loop (acc.failed)
RECURSIVE approveImages(_, _, _, _, _)
approveImages(p, draftImages, faults, i, acc) ==
  IF i > Len(draftImages) \/ acc.failed THEN acc
  ELSE
    LET imgId == draftImages[i]
        m == moveCloudinaryFiles(acc.storage, imgId, "images", faults[imgId])
        info == getFileInfo(m.storage, m.id)
    IN IF IsUpdates(imgId)
         THEN IF m.ok
           THEN approveImages(p, draftImages, faults, i + 1,
                  [acc EXCEPT !.storage = m.storage,
                              !.ids = Append(acc.ids, m.id),
                              !.urls = IF info # NoHandle THEN Append(acc.urls, info)
                                       ELSE acc.urls])
           ELSE [acc EXCEPT !.storage = m.storage, !.failed = TRUE]
         ELSE approveImages(p, draftImages, faults, i + 1,
                [acc EXCEPT !.ids = Append(acc.ids, imgId),
                            !.urls = Append(acc.urls,
                                       urlAt(p.imageUrls, indexOf(draftImages, imgId)))])

\* filesToDelete of approveDraft
approveFilesToDelete(p) ==
  LET d == p.draft IN
    (IF d.iconPublicId # NoHandle /\ p.iconPublicId # NoHandle
        /\ d.iconPublicId # p.iconPublicId THEN {p.iconPublicId} ELSE {})
    \cup (IF Len(d.imagePublicIds) > 0 /\ Len(p.imagePublicIds) > 0
            THEN Range(p.imagePublicIds) \ Range(d.imagePublicIds) ELSE {})
    \cup (IF d.files.code.publicId # NoHandle /\ p.files.code.publicId # NoHandle
             /\ d.files.code.publicId # p.files.code.publicId
            THEN {p.files.code.publicId} ELSE {})
    \cup (IF d.files.docPdf.publicId # NoHandle /\ p.files.docPdf.publicId # NoHandle
             /\ d.files.docPdf.publicId # p.files.docPdf.publicId
            THEN {p.files.docPdf.publicId} ELSE {})

\* the icon move of approveDraft; acc carries the document in memory, the
\* storage and whether a move threw (the first throw ends step 1); d is the draft
approveIcon(acc, d, faults) ==
  LET h == d.iconPublicId
      m == moveCloudinaryFiles(acc.storage, h, "icons", faults[h])
  IN IF acc.failed \/ ~IsUpdates(h) THEN acc
     ELSE IF m.ok
       THEN [acc EXCEPT !.doc.iconPublicId = m.id,
                        !.doc.iconUrl = movedUrl(m.storage, m.id, @),
                        !.storage = m.storage]
       ELSE [acc EXCEPT !.storage = m.storage, !.failed = TRUE]

\* the image moves of approveDraft
approveImagesBlock(acc, d, faults) ==
  LET im == approveImages(acc.doc, d.imagePublicIds, faults, 1,
              [storage |-> acc.storage, ids |-> <<>>, urls |-> <<>>, failed |-> FALSE])
  IN IF acc.failed \/ Len(d.imagePublicIds) = 0 THEN acc
     ELSE IF im.failed
       THEN [acc EXCEPT !.storage = im.storage, !.failed = TRUE]
       ELSE [acc EXCEPT !.doc.imagePublicIds = im.ids,
                        !.doc.imageUrls = im.urls,
                        !.storage = im.storage]

\* the code move of approveDraft
approveCode(acc, d, faults) ==
  LET h == d.files.code.publicId
      m == moveCloudinaryFiles(acc.storage, h, "code", faults[h])
  IN IF acc.failed \/ ~IsUpdates(h) THEN acc
     ELSE IF m.ok
       THEN [acc EXCEPT !.doc.files.code.publicId = m.id,
                        !.doc.files.code.url = movedUrl(m.storage, m.id, @),
                        !.storage = m.storage]
       ELSE [acc EXCEPT !.storage = m.storage, !.failed = TRUE]

\* the documentation move of approveDraft
approveDoc(acc, d, faults) ==
  LET h == d.files.docPdf.publicId
      m == moveCloudinaryFiles(acc.storage, h, "docs", faults[h])
  IN IF acc.failed \/ ~IsUpdates(h) THEN acc
     ELSE IF m.ok
       THEN [acc EXCEPT !.doc.files.docPdf.publicId = m.id,
                        !.doc.files.docPdf.url = movedUrl(m.storage, m.id, @),
                        !.storage = m.storage]
       ELSE [acc EXCEPT !.storage = m.storage, !.failed = TRUE]

\* approveDraft from applyDraft to the end of step 1 (the moves): the document
\* in memory, the storage, and whether a move threw
approveMoves(p, st, faults) ==
  approveDoc(
    approveCode(
      approveImagesBlock(
        approveIcon([doc |-> applyDraft(p), storage |-> st, failed |-> FALSE],
                    p.draft, faults),
        p.draft, faults),
      p.draft, faults),
    p.draft, faults)

\* the check approveDraft and rejectDraft make before acting
hasPendingDraft(p) == p.status = "published" /\ p.draftStatus = "pending"

approveDraft(faults, notifyOk) ==
  /\ db.exists
  /\ IF ~hasPendingDraft(db)
       THEN /\ resp' = Response("approveDraft", 400)
            /\ UNCHANGED <<db, storage>>
       ELSE LET out == approveMoves(db, storage, faults) IN
         IF out.failed
           THEN /\ resp' = [Response("approveDraft", 400) EXCEPT !.fault = TRUE]
                /\ storage' = out.storage
                /\ UNCHANGED db
           ELSE /\ storage' = deleteAll(out.storage, approveFilesToDelete(db))
                /\ db' = clearDraft(out.doc)
                /\ resp' = Response("approveDraft", AfterNotify(notifyOk))

\* a filesToDelete that also takes what the draft would replace
rejectReplacedToo(p) == (DraftRefs(p) \ LiveRefs(p)) \cup approveFilesToDelete(p)

\* filesToDelete of rejectDraft
rejectFilesToDelete(p) ==
  LET d == p.draft IN
    (IF d.iconPublicId # NoHandle /\ d.iconPublicId # p.iconPublicId
       THEN {d.iconPublicId} ELSE {})
    \cup (Range(d.imagePublicIds) \ Range(p.imagePublicIds))
    \cup (IF d.hasFiles /\ d.files.code.publicId # NoHandle
             /\ d.files.code.publicId # p.files.code.publicId
            THEN {d.files.code.publicId} ELSE {})
    \cup (IF d.hasFiles /\ d.files.docPdf.publicId # NoHandle
             /\ d.files.docPdf.publicId # p.files.docPdf.publicId
            THEN {d.files.docPdf.publicId} ELSE {})

\* rejectDraft's writes to the document
markDraftRejected(p) ==
  [p EXCEPT !.draftStatus = "rejected", !.draftFeedback = TRUE, !.draftRejected = TRUE]

\* a rejectDraft that awaits every deletion and lets its failure reach the catch
rejectDraftAwaited(notifyOk) ==
  /\ db.exists
  /\ IF ~hasPendingDraft(db)
       THEN /\ resp' = Response("rejectDraft", 400)
            /\ UNCHANGED <<db, storage>>
       ELSE IF deleteThrows /\ rejectFilesToDelete(db) # {}
         THEN /\ resp' = [Response("rejectDraft", 400) EXCEPT !.fault = TRUE]
              /\ UNCHANGED <<db, storage>>
         ELSE /\ storage' = deleteAll(storage, rejectFilesToDelete(db))
              /\ db' = markDraftRejected(db)
              /\ resp' = Response("rejectDraft", AfterNotify(notifyOk))

rejectDraft(notifyOk) ==
  /\ db.exists
  /\ IF ~hasPendingDraft(db)
       THEN /\ resp' = Response("rejectDraft", 400)
            /\ UNCHANGED <<db, storage>>
       ELSE /\ storage' = deleteAll(storage, rejectFilesToDelete(db))
            /\ db' = markDraftRejected(db)
            /\ resp' = Response("rejectDraft", AfterNotify(notifyOk))

\* a clearRejectedDraft that does not look at draftStatus
clearDraftUnchecked ==
  /\ db.exists
  /\ UNCHANGED storage
  /\ db' = clearDraft(db)
  /\ resp' = Response("clearRejectedDraft", 200)

clearRejectedDraft ==
  /\ db.exists
  /\ UNCHANGED storage
  /\ IF db.draftStatus # "rejected"
       THEN /\ resp' = Response("clearRejectedDraft", 400)
            /\ UNCHANGED db
       ELSE /\ db' = clearDraft(db)
            /\ resp' = Response("clearRejectedDraft", 200)

\* names no stored object and no field of the document carries
FreeNames == {n \in Names : \A h \in storage \cup LiveRefs(db) \cup DraftRefs(db) : h.name # n}

\* the name the next upload gets (timestamps grow: the first free one)
FreshName == NamePool[CHOOSE i \in 1..MaxNames :
                        /\ NamePool[i] \in FreeNames
                        /\ \A j \in 1..(i-1) : NamePool[j] \notin FreeNames]

\* folder and public id an upload controller stores the file under
uploadTarget(kind, hasProjectId) ==
  Handle(getUploadFolder(hasProjectId, db.exists /\ db.status = "published"),
         kind, FreshName)

\* the upload updates the document when it names a project that is not published
uploadWrites(hasProjectId) == hasProjectId /\ db.exists /\ db.status # "published"

uploadProjectIcon(hasProjectId) ==
  /\ FreeNames # {}
  /\ hasProjectId => db.exists
  /\ LET h == uploadTarget("icons", hasProjectId) IN
       /\ storage' = storage \cup {h}
       /\ db' = IF uploadWrites(hasProjectId)
                  THEN [db EXCEPT !.iconPublicId = h, !.iconUrl = h] ELSE db
       /\ resp' = Response("uploadProjectIcon", 200)

uploadProjectImages(hasProjectId) ==
  /\ FreeNames # {}
  /\ hasProjectId => db.exists
  /\ LET h == uploadTarget("images", hasProjectId) IN
       /\ storage' = storage \cup {h}
       /\ db' = IF uploadWrites(hasProjectId)
                  THEN [db EXCEPT !.imagePublicIds = <<h>>, !.imageUrls = <<h>>] ELSE db
       /\ resp' = Response("uploadProjectImages", 200)

\* results of scanWithVirusTotal: a report without or with detections, or the
\* fail-open result returned when the scan could not be made
ScanResults == {Scan(TRUE, "real"), Scan(FALSE, "real"), Scan(TRUE, "error")}

\* a controller that accepts a file only with a verdict of a finished scan
uploadProjectCodeScannedOnly(hasProjectId, virusScanResult) ==
  /\ FreeNames # {}
  /\ hasProjectId => db.exists
  /\ IF ~virusScanResult.isSafe \/ virusScanResult.scanId # "real"
       THEN /\ resp' = Response("uploadProjectCode", 400)
            /\ UNCHANGED <<db, storage>>
       ELSE LET h == uploadTarget("code", hasProjectId) IN
         /\ storage' = storage \cup {h}
         /\ db' = IF uploadWrites(hasProjectId)
                    THEN [db EXCEPT !.files.code = File(h, Scan(TRUE, virusScanResult.scanId))]
                    ELSE db
         /\ resp' = [Response("uploadProjectCode", 200)
                       EXCEPT !.scanId = virusScanResult.scanId]

uploadProjectCodeController(hasProjectId, virusScanResult) ==
  /\ FreeNames # {}
  /\ hasProjectId => db.exists
  /\ IF ~virusScanResult.isSafe
       THEN /\ resp' = Response("uploadProjectCode", 400)
            /\ UNCHANGED <<db, storage>>
       ELSE LET h == uploadTarget("code", hasProjectId) IN
         /\ storage' = storage \cup {h}
         /\ db' = IF uploadWrites(hasProjectId)
                    THEN [db EXCEPT !.files.code = File(h, Scan(TRUE, virusScanResult.scanId))]
                    ELSE db
         /\ resp' = [Response("uploadProjectCode", 200)
                       EXCEPT !.scanId = virusScanResult.scanId]

uploadProjectDocController(hasProjectId, virusScanResult) ==
  /\ FreeNames # {}
  /\ hasProjectId => db.exists
  /\ IF ~virusScanResult.isSafe
       THEN /\ resp' = Response("uploadProjectDoc", 400)
            /\ UNCHANGED <<db, storage>>
       ELSE LET h == uploadTarget("docs", hasProjectId) IN
         /\ storage' = storage \cup {h}
         /\ db' = IF uploadWrites(hasProjectId)
                    THEN [db EXCEPT !.files.docPdf = File(h, Scan(TRUE, virusScanResult.scanId))]
                    ELSE db
         /\ resp' = [Response("uploadProjectDoc", 200)
                       EXCEPT !.scanId = virusScanResult.scanId]

----------------------------------------------------------------------------
(* createProjectWithFiles: the document is created, the files of the request
   are uploaded under softstore/<id>/ one after the other (app, code and doc
   after their scan), the document is saved with them and the author is
   notified; the catch block deletes what was uploaded and the document.
   files.app is not a field of the model's document; its object is stored. *)

\* req.files: which parts the multipart request carries
FileSets ==
  [icon : BOOLEAN, images : 0..MaxImages, app : BOOLEAN, code : BOOLEAN, doc : BOOLEAN]

\* the step at which the request fails: an upload, the second save, or none
CreateFaults == {"none", "icons", "images", "apps", "code", "docs", "save"}

\* the file scanWithVirusTotal answers isSafe = false for, or none
UnsafeFiles == {"none", "apps", "code", "docs"}

\* the app file is named app_<title>_<time>, the others <kind>_<title>_<time>
CreateTarget(kind) ==
  Handle("own", kind, IF kind = "apps" THEN "app_f" ELSE FreshName)

CreateStart ==
  [storage |-> storage, uploaded |-> {}, failed |-> FALSE,
   doc |-> [NoDoc EXCEPT !.exists = TRUE, !.status = "pending"]]

\* uploadToCloudinary and uploadedFileIds.push
createUpload(acc, kind, fault) ==
  IF fault = kind THEN [acc EXCEPT !.failed = TRUE]
  ELSE [acc EXCEPT !.storage = @ \cup {CreateTarget(kind)},
                   !.uploaded = @ \cup {CreateTarget(kind)}]

createIcon(acc, files, fault) ==
  IF acc.failed \/ ~files.icon THEN acc
  ELSE LET up == createUpload(acc, "icons", fault) IN
    IF up.failed THEN up
    ELSE [up EXCEPT !.doc.iconPublicId = CreateTarget("icons"),
                    !.doc.iconUrl = CreateTarget("icons")]

createImages(acc, files, fault) ==
  IF acc.failed \/ files.images = 0 THEN acc
  ELSE LET up == createUpload(acc, "images", fault) IN
    IF up.failed THEN up
    ELSE [up EXCEPT !.doc.imagePublicIds = <<CreateTarget("images")>>,
                    !.doc.imageUrls = <<CreateTarget("images")>>]

createApp(acc, files, unsafe, fault) ==
  IF acc.failed \/ ~files.app THEN acc
  ELSE IF unsafe = "apps" THEN [acc EXCEPT !.failed = TRUE]
  ELSE createUpload(acc, "apps", fault)

createCode(acc, files, unsafe, fault) ==
  IF acc.failed \/ ~files.code THEN acc
  ELSE IF unsafe = "code" THEN [acc EXCEPT !.failed = TRUE]
  ELSE LET up == createUpload(acc, "code", fault) IN
    IF up.failed THEN up
    ELSE [up EXCEPT !.doc.files.code = File(CreateTarget("code"), Scan(TRUE, "real"))]

createDoc(acc, files, unsafe, fault) ==
  IF acc.failed \/ ~files.doc THEN acc
  ELSE IF unsafe = "docs" THEN [acc EXCEPT !.failed = TRUE]
  ELSE LET up == createUpload(acc, "docs", fault) IN
    IF up.failed THEN up
    ELSE [up EXCEPT !.doc.files.docPdf = File(CreateTarget("docs"), Scan(TRUE, "real"))]

\* the second save runs when there is something to update
createSave(acc, fault) ==
  IF ~acc.failed /\ fault = "save" /\ acc.uploaded # {}
    THEN [acc EXCEPT !.failed = TRUE]
    ELSE acc

createUploads(files, unsafe, fault) ==
  createSave(
    createDoc(
      createCode(
        createApp(
          createImages(createIcon(CreateStart, files, fault), files, fault),
          files, unsafe, fault),
        files, unsafe, fault),
      files, unsafe, fault),
    fault)

\* the catch block: deleteFromCloudinary for every uploaded id (allSettled),
\* then findByIdAndDelete
createRollback(acc) ==
  /\ storage' = deleteAll(acc.storage, acc.uploaded)
  /\ db' = NoDoc
  /\ resp' = [Response("createProjectWithFiles", 400) EXCEPT !.fault = acc.failed]

createProjectWithFiles(files, unsafe, fault, notifyOk) ==
  /\ ~db.exists
  /\ FreeNames # {}
  /\ CreateTarget("apps") \notin storage
  /\ LET acc == createUploads(files, unsafe, fault) IN
       IF acc.failed \/ ~notifyOk
         THEN createRollback(acc)
         ELSE /\ storage' = acc.storage
              /\ db' = acc.doc
              /\ resp' = Response("createProjectWithFiles", 201)

----------------------------------------------------------------------------
(* Specification of the lifecycle: one handler at a time *)

Requests == {1, 2}

IdleConc ==
  /\ pc = [r \in Requests |-> "idle"]
  /\ loaded = [r \in Requests |-> [doc |-> NoDoc, rev |-> 0, op |-> "none"]]
  /\ rev = 0

Callers == {1, 2}

\* the service as constructed; the clock is far from the epoch, so the first
\* request never waits
IdleScan ==
  /\ now = RATE_LIMIT_DELAY
  /\ lastRequestTime = 0
  /\ dailyRequestCount = 0
  /\ lastResetDate = 0
  /\ currentDate = 0
  /\ scanPc = [c \in Callers |-> "idle"]
  /\ wakeAt = [c \in Callers |-> 0]
  /\ dispatched = <<>>

\* no scan call in progress; VirusTotal has never seen the file
IdleCall == [pc |-> "idle", retries |-> 0, wake |-> 0, wait |-> 0, result |-> NoScan]

IdleVT ==
  /\ vt = "unknown"
  /\ call = [c \in Callers |-> IdleCall]
  /\ sent = [lookup |-> 0, submit |-> 0, poll |-> 0]

NoReport == [present |-> FALSE]
NoScanResult == [present |-> FALSE, isSafe |-> TRUE]

IdleReport ==
  /\ report = NoReport
  /\ scanResult = NoScanResult

Init ==
  /\ db = NoDoc
  /\ storage = {}
  /\ resp = Response("none", 0)
  /\ IdleConc
  /\ IdleScan
  /\ IdleVT
  /\ IdleReport
  /\ deleteThrows = FALSE
  /\ infoThrows = FALSE

\* the public ids publishProject and approveDraft try to move
Staged == {h \in LiveRefs(db) : IsTemp(h)}

DraftStaged == {h \in DraftRefs(db) : IsUpdates(h)}

\* the verdict a client attaches to a file it names, as the upload answered it
ClientVerdicts == {Scan(TRUE, "real")}

\* a step of a lifecycle handler leaves the other machines alone
Lifecycle(A) == A /\ UNCHANGED <<concVars, scanVars, vtVars, reportVars, deleteThrows, infoThrows>>

(* Drafts of a published project: files are uploaded for the project, edited
   by the author (draft) or by an administrator (direct), and reviewed *)
Next ==
  \/ Lifecycle(\E body \in CreateBodies(storage, ClientVerdicts) : createProject(body))
  \/ Lifecycle(\E f \in FaultMaps(Staged) : publishProject(f, TRUE))
  \/ Lifecycle(\E body \in UpdateBodies(storage, ClientVerdicts), a \in BOOLEAN :
                 updateProject(body, a))
  \/ Lifecycle(\E f \in FaultMaps(DraftStaged) : approveDraft(f, TRUE))
  \/ Lifecycle(rejectDraft(TRUE))
  \/ Lifecycle(clearRejectedDraft)
  \/ Lifecycle(uploadProjectCodeController(TRUE, Scan(TRUE, "real")))
  \/ Lifecycle(uploadProjectDocController(TRUE, Scan(TRUE, "real")))

Spec == Init /\ [][Next]_vars

(* Publication of a project whose assets were uploaded to the staging folder *)
NextP ==
  \/ Lifecycle(\E body \in CreateBodies(storage, ClientVerdicts) : createProject(body))
  \/ Lifecycle(\E f \in FaultMaps(Staged), ok \in BOOLEAN : publishProject(f, ok))
  \/ Lifecycle(uploadProjectIcon(FALSE))
  \/ Lifecycle(uploadProjectImages(FALSE))
  \/ Lifecycle(uploadProjectCodeController(FALSE, Scan(TRUE, "real")))
  \/ Lifecycle(uploadProjectDocController(FALSE, Scan(TRUE, "real")))

SpecP == Init /\ [][NextP]_vars

(* Moderation: any body projectSchema accepts, and every moderation handler *)
NextStatus ==
  \/ Lifecycle(\E body \in CreateBodies(storage, Verdicts) : createProject(body))
  \/ Lifecycle(\E v \in ScanResults : uploadProjectCodeController(FALSE, v))
  \/ Lifecycle(\E f \in FaultMaps(Staged) : publishProject(f, TRUE))
  \/ Lifecycle(\E ok \in BOOLEAN : sendToAuthor(ok))
  \/ Lifecycle(\E ok \in BOOLEAN : rejectProject(ok))
  \/ Lifecycle(resubmitProject)
  \/ Lifecycle(\E body \in UpdateBodies(storage, Verdicts) : updateProject(body, FALSE))

SpecStatus == Init /\ [][NextStatus]_vars

(* Creation of projects with their files in one request *)
NextCreate ==
  \/ Lifecycle(\E files \in FileSets, unsafe \in UnsafeFiles, fault \in CreateFaults,
                  ok \in BOOLEAN : createProjectWithFiles(files, unsafe, fault, ok))

SpecCreate == Init /\ [][NextCreate]_vars

----------------------------------------------------------------------------
(* Two requests on one project, interleaved.  A handler loads the document
   (findById), checks it, awaits remote calls and then saves; another request
   can run between the load and the save.  The projects carry no assets. *)

Transitions ==
  {"publishProject", "rejectProject", "sendToAuthor", "resubmitProject",
   "updateProject", "approveDraft", "rejectDraft", "clearRejectedDraft"}

\* the body of the author's edit: a new short description
AuthorEdit ==
  [shortDesc |-> "d2", iconPublicId |-> NoHandle, hasImages |-> FALSE,
   imagePublicIds |-> <<>>, hasFiles |-> FALSE, code |-> NoFile, docPdf |-> NoFile]

NoFaults == [h \in {} |-> "none"]

\* the check each handler makes on the document it loaded
passesCheck(op, p) ==
  CASE op = "resubmitProject" -> canResubmit(p)
    [] op = "updateProject" -> p.status = "published" => hasChanges(p, AuthorEdit)
    [] op = "approveDraft" -> hasPendingDraft(p)
    [] op = "rejectDraft" -> hasPendingDraft(p)
    [] op = "clearRejectedDraft" -> p.draftStatus = "rejected"
    [] OTHER -> TRUE

\* the document each handler holds when it calls save()
written(op, p) ==
  CASE op = "publishProject" -> publishOutcome(p, {}, NoFaults).doc
    [] op = "rejectProject" -> markRejected(p)
    [] op = "sendToAuthor" -> markNeedsReview(p)
    [] op = "resubmitProject" -> markPending(p)
    [] op = "updateProject" ->
         IF p.status = "published" THEN saveDraft(p, draftChanges(p, AuthorEdit))
         ELSE directEdit(p, {}, AuthorEdit)
    [] op = "approveDraft" -> clearDraft(approveMoves(p, {}, NoFaults).doc)
    [] op = "rejectDraft" -> markDraftRejected(p)
    [] op = "clearRejectedDraft" -> clearDraft(p)

\* document.save(): the paths the handler modified since the load are written
\* over the stored document, whatever it holds by now; no version is compared
save(stored, atLoad, held) ==
  [f \in DOMAIN stored |-> IF held[f] # atLoad[f] THEN held[f] ELSE stored[f]]

\* the handler up to its first await after the check
findById(r, op) ==
  /\ pc[r] = "idle"
  /\ IF passesCheck(op, db)
       THEN /\ loaded' = [loaded EXCEPT ![r] = [doc |-> db, rev |-> rev, op |-> op]]
            /\ pc' = [pc EXCEPT ![r] = "saving"]
            /\ UNCHANGED resp
       ELSE /\ resp' = Response(op, 400)
            /\ pc' = [pc EXCEPT ![r] = "refused"]
            /\ UNCHANGED loaded
  /\ UNCHANGED <<db, storage, rev>>

\* the rest of the handler: save() and the response
saveLoaded(r) ==
  /\ pc[r] = "saving"
  /\ db' = save(db, loaded[r].doc, written(loaded[r].op, loaded[r].doc))
  /\ rev' = rev + 1
  /\ pc' = [pc EXCEPT ![r] = "done"]
  /\ resp' = Response(loaded[r].op, 200)
  /\ UNCHANGED <<storage, loaded>>

\* documents the sequential handlers leave behind
PendingDoc == [NoDoc EXCEPT !.exists = TRUE]

ConcDocs ==
  {PendingDoc,
   markRejected(PendingDoc),
   markPublished(PendingDoc),
   saveDraft(markPublished(PendingDoc), draftChanges(markPublished(PendingDoc), AuthorEdit)),
   markDraftRejected(
     saveDraft(markPublished(PendingDoc), draftChanges(markPublished(PendingDoc), AuthorEdit)))}

InitConc ==
  /\ db \in ConcDocs
  /\ storage = {}
  /\ resp = Response("none", 0)
  /\ IdleConc
  /\ IdleScan
  /\ IdleVT
  /\ IdleReport
  /\ deleteThrows = FALSE
  /\ infoThrows = FALSE

NextConc ==
  \/ \E r \in Requests, op \in Transitions : findById(r, op) /\ UNCHANGED <<scanVars, vtVars, reportVars, deleteThrows, infoThrows>>
  \/ \E r \in Requests : saveLoaded(r) /\ UNCHANGED <<scanVars, vtVars, reportVars, deleteThrows, infoThrows>>

SpecConc == InitConc /\ [][NextConc]_vars

(* An upload that names the project, interleaved with publishProject.  The
   upload controller reads the project twice: before the upload, to choose the
   folder, and after it, to decide whether to write the file into the
   document.  The project has no staged assets, so publishProject writes
   status and publishedAt only. *)

UploadOps == {"uploadProjectCode", "uploadProjectDoc"}

UploadKind(op) == IF op = "uploadProjectCode" THEN "code" ELSE "docs"

\* the first findById of the controller: isUpdate is read from this instance
uploadFindById(r, op) ==
  /\ pc[r] = "idle"
  /\ db.exists
  /\ FreeNames # {}
  /\ loaded' = [loaded EXCEPT ![r] = [doc |-> db, rev |-> rev, op |-> op]]
  /\ pc' = [pc EXCEPT ![r] = "folder"]
  /\ UNCHANGED <<db, storage, rev, resp>>

\* uploadToCloudinary into the folder chosen from the first read; the request
\* keeps the result (here in the files entry of its instance)
uploadToFolder(r) ==
  /\ pc[r] = "folder"
  /\ FreeNames # {}
  /\ LET h == Handle(getUploadFolder(TRUE, loaded[r].doc.status = "published"),
                     UploadKind(loaded[r].op), FreshName)
         f == File(h, Scan(TRUE, "real"))
     IN /\ storage' = storage \cup {h}
        /\ loaded' = [loaded EXCEPT ![r].doc.files =
                        IF loaded[r].op = "uploadProjectCode"
                          THEN [@ EXCEPT !.code = f] ELSE [@ EXCEPT !.docPdf = f]]
  /\ pc' = [pc EXCEPT ![r] = "uploaded"]
  /\ UNCHANGED <<db, rev, resp>>

\* the second findById and the status test made on its result
uploadFindAgain(r) ==
  /\ pc[r] = "uploaded"
  /\ IF db.status = "published"
       THEN /\ pc' = [pc EXCEPT ![r] = "done"]
            /\ resp' = Response(loaded[r].op, 200)
       ELSE /\ pc' = [pc EXCEPT ![r] = "writing"]
            /\ UNCHANGED resp
  /\ UNCHANGED <<db, storage, rev, loaded>>

\* project.save() of the controller: the path files.code (files.docPdf) is
\* written over the stored document
uploadSave(r) ==
  /\ pc[r] = "writing"
  /\ db' = IF loaded[r].op = "uploadProjectCode"
             THEN [db EXCEPT !.files.code = loaded[r].doc.files.code]
             ELSE [db EXCEPT !.files.docPdf = loaded[r].doc.files.docPdf]
  /\ rev' = rev + 1
  /\ pc' = [pc EXCEPT ![r] = "done"]
  /\ resp' = Response(loaded[r].op, 200)
  /\ UNCHANGED <<storage, loaded>>

InitUpload ==
  /\ db = PendingDoc
  /\ storage = {}
  /\ resp = Response("none", 0)
  /\ IdleConc
  /\ IdleScan
  /\ IdleVT
  /\ IdleReport
  /\ deleteThrows = FALSE
  /\ infoThrows = FALSE

NextUpload ==
  \/ \E r \in Requests, op \in UploadOps :
       uploadFindById(r, op) /\ UNCHANGED <<scanVars, vtVars, reportVars, deleteThrows, infoThrows>>
  \/ \E r \in Requests : uploadToFolder(r) /\ UNCHANGED <<scanVars, vtVars, reportVars, deleteThrows, infoThrows>>
  \/ \E r \in Requests : uploadFindAgain(r) /\ UNCHANGED <<scanVars, vtVars, reportVars, deleteThrows, infoThrows>>
  \/ \E r \in Requests : uploadSave(r) /\ UNCHANGED <<scanVars, vtVars, reportVars, deleteThrows, infoThrows>>
  \/ \E r \in Requests : findById(r, "publishProject") /\ UNCHANGED <<scanVars, vtVars, reportVars, deleteThrows, infoThrows>>
  \/ \E r \in Requests : saveLoaded(r) /\ UNCHANGED <<scanVars, vtVars, reportVars, deleteThrows, infoThrows>>

SpecUpload == InitUpload /\ [][NextUpload]_vars

(* Review of drafts that replace the icon or the images of a published
   project *)
LiveIcon == Handle("projects", "icons", NamePool[1])

\* a project published with an icon
InitReview ==
  /\ db = [markPublished(PendingDoc) EXCEPT !.iconPublicId = LiveIcon, !.iconUrl = LiveIcon]
  /\ storage = {LiveIcon}
  /\ resp = Response("none", 0)
  /\ IdleConc
  /\ IdleScan
  /\ IdleVT
  /\ IdleReport
  /\ deleteThrows = FALSE
  /\ infoThrows = FALSE

NextReview ==
  \/ Lifecycle(uploadProjectIcon(TRUE))
  \/ Lifecycle(uploadProjectImages(TRUE))
  \/ Lifecycle(\E body \in UpdateBodies(storage, ClientVerdicts) : updateProject(body, FALSE))
  \/ Lifecycle(\E f \in FaultMaps(DraftStaged) : approveDraft(f, TRUE))
  \/ Lifecycle(\E ok \in BOOLEAN : rejectDraft(ok))
  \/ Lifecycle(clearRejectedDraft)

SpecReview == InitReview /\ [][NextReview]_vars

----------------------------------------------------------------------------
(* The VirusTotal rate limiter: concurrent scanWithVirusTotal calls on the one
   AntivirusService instance *)

\* the clock advances in steps of a third of the delay
TickMs == RATE_LIMIT_DELAY \div 3

\* lastRequestTime = Date.now(); the counters; the request leaves right after
\* rateLimitCheck returns
stamp(count) ==
  /\ lastRequestTime' = now
  /\ dailyRequestCount' = count + 1
  /\ dispatched' = Append(dispatched, now)

\* rateLimitCheck up to its await (or to its end when it need not wait)
rateLimitCheck(c) ==
  /\ scanPc[c] = "idle"
  /\ Len(dispatched) < MaxDispatch
  /\ lastResetDate' = currentDate
  /\ LET count == IF lastResetDate # currentDate THEN 0 ELSE dailyRequestCount IN
       IF count >= DAILY_LIMIT
         THEN /\ dailyRequestCount' = count
              /\ UNCHANGED <<lastRequestTime, dispatched, scanPc, wakeAt>>
       ELSE IF now - lastRequestTime < RATE_LIMIT_DELAY
         THEN /\ wakeAt' = [wakeAt EXCEPT
                              ![c] = now + (RATE_LIMIT_DELAY - (now - lastRequestTime))]
              /\ scanPc' = [scanPc EXCEPT ![c] = "waiting"]
              /\ dailyRequestCount' = count
              /\ UNCHANGED <<lastRequestTime, dispatched>>
         ELSE /\ stamp(count)
              /\ UNCHANGED <<scanPc, wakeAt>>
  /\ UNCHANGED <<now, currentDate>>

\* the setTimeout of rateLimitCheck fires and the function runs to its end
timerFires(c) ==
  /\ scanPc[c] = "waiting"
  /\ now >= wakeAt[c]
  /\ stamp(dailyRequestCount)
  /\ scanPc' = [scanPc EXCEPT ![c] = "idle"]
  /\ UNCHANGED <<now, currentDate, lastResetDate, wakeAt>>

Tick ==
  /\ now < RATE_LIMIT_DELAY + MaxTime * TickMs
  /\ now' = now + TickMs
  /\ UNCHANGED <<lastRequestTime, dailyRequestCount, lastResetDate, currentDate,
                 scanPc, wakeAt, dispatched>>

Midnight ==
  /\ currentDate < MaxDays
  /\ currentDate' = currentDate + 1
  /\ UNCHANGED <<now, lastRequestTime, dailyRequestCount, lastResetDate,
                 scanPc, wakeAt, dispatched>>

\* the service after start, or late in a day: DAILY_LIMIT - 2 requests counted,
\* the last of them at least RATE_LIMIT_DELAY ago
InitScan ==
  /\ db = NoDoc
  /\ storage = {}
  /\ resp = Response("none", 0)
  /\ IdleConc
  /\ now = RATE_LIMIT_DELAY
  /\ lastRequestTime = 0
  /\ dailyRequestCount \in {0, DAILY_LIMIT - 2}
  /\ lastResetDate = 0
  /\ currentDate = 0
  /\ scanPc = [c \in Callers |-> "idle"]
  /\ wakeAt = [c \in Callers |-> 0]
  /\ dispatched = <<>>
  /\ IdleVT
  /\ IdleReport
  /\ deleteThrows = FALSE
  /\ infoThrows = FALSE

NextScan ==
  \/ \E c \in Callers : rateLimitCheck(c) /\ UNCHANGED <<lifecycleVars, concVars, vtVars, reportVars, deleteThrows, infoThrows>>
  \/ \E c \in Callers : timerFires(c) /\ UNCHANGED <<lifecycleVars, concVars, vtVars, reportVars, deleteThrows, infoThrows>>
  \/ Tick /\ UNCHANGED <<lifecycleVars, concVars, vtVars, reportVars, deleteThrows, infoThrows>>
  \/ Midnight /\ UNCHANGED <<lifecycleVars, concVars, vtVars, reportVars, deleteThrows, infoThrows>>

SpecScan == InitScan /\ [][NextScan]_vars

----------------------------------------------------------------------------
(* scanWithVirusTotal: calls on byte-identical buffers, hence on one hash.
   The API key is configured.  Each request to VirusTotal goes through
   rateLimitCheck first; here the check runs to its end within the step of the
   request it guards (its own interleavings are those of SpecScan). *)

Max(a, b) == IF a >= b THEN a ELSE b

Min(a, b) == IF a <= b THEN a ELSE b

RequestsSent == sent.lookup + sent.submit + sent.poll

\* the counter rateLimitCheck works with after its day reset
countToday == IF lastResetDate # currentDate THEN 0 ELSE dailyRequestCount

\* the time at which the request of caller c leaves: not before the caller
\* woke up, and RATE_LIMIT_DELAY after the request before it
leaveAt(c) ==
  IF Max(now, call[c].wake) - lastRequestTime < RATE_LIMIT_DELAY
    THEN lastRequestTime + RATE_LIMIT_DELAY
    ELSE Max(now, call[c].wake)

\* a rateLimitCheck that spaces the requests and does not count them
rateLimitedUncounted(c) ==
  /\ lastResetDate' = currentDate
  /\ dailyRequestCount' = countToday
  /\ IF countToday >= DAILY_LIMIT
       THEN UNCHANGED <<now, lastRequestTime, dispatched>>
       ELSE /\ now' = leaveAt(c)
            /\ lastRequestTime' = leaveAt(c)
            /\ dispatched' = Append(dispatched, leaveAt(c))
  /\ UNCHANGED <<currentDate, scanPc, wakeAt>>

\* rateLimitCheck by caller c: it throws at the ceiling, else the request is
\* counted and leaves
rateLimited(c) ==
  /\ lastResetDate' = currentDate
  /\ IF countToday >= DAILY_LIMIT
       THEN /\ dailyRequestCount' = countToday
            /\ UNCHANGED <<now, lastRequestTime, dispatched>>
       ELSE /\ now' = leaveAt(c)
            /\ lastRequestTime' = leaveAt(c)
            /\ dailyRequestCount' = countToday + 1
            /\ dispatched' = Append(dispatched, leaveAt(c))
  /\ UNCHANGED <<currentDate, scanPc, wakeAt>>

\* the report VirusTotal has for the hash: response_code 1 and its positives
hasReport == vt \in {"clean", "infected"}

reportVerdict == Scan(vt = "clean", "real")

returns(c, result) ==
  call' = [call EXCEPT ![c] = [pc |-> "done", retries |-> 0, wake |-> 0, wait |-> 0,
                               result |-> result]]

\* scanWithVirusTotal up to its first await: at the ceiling it answers at once
scanWithVirusTotal(c) ==
  /\ call[c].pc = "idle"
  /\ IF dailyRequestCount >= DAILY_LIMIT
       THEN returns(c, Scan(TRUE, "daily-limit-reached"))
       ELSE call' = [call EXCEPT ![c].pc = "lookup"]
  /\ UNCHANGED <<scanVars, vt, sent>>

\* checkHashReport: a report is used, anything else (no report, HTTP error,
\* rateLimitCheck throwing) is null and the file is submitted
checkHashReport(c, answered) ==
  /\ call[c].pc = "lookup"
  /\ RequestsSent < MaxRequests
  /\ rateLimited(c)
  /\ IF countToday >= DAILY_LIMIT
       THEN /\ call' = [call EXCEPT ![c].pc = "submit"]
            /\ UNCHANGED sent
       ELSE /\ sent' = [sent EXCEPT !.lookup = @ + 1]
            /\ IF answered /\ hasReport
                 THEN returns(c, reportVerdict)
                 ELSE call' = [call EXCEPT ![c].pc = "submit"]
  /\ UNCHANGED vt

\* uploadFileForScan: the file is queued for analysis; a failure ends the call
\* in the catch of scanWithVirusTotal
uploadFileForScan(c, answered) ==
  /\ call[c].pc = "submit"
  /\ RequestsSent < MaxRequests
  /\ rateLimited(c)
  /\ IF countToday >= DAILY_LIMIT
       THEN /\ returns(c, Scan(TRUE, "error"))
            /\ UNCHANGED <<sent, vt>>
       ELSE /\ sent' = [sent EXCEPT !.submit = @ + 1]
            /\ IF answered
                 THEN /\ vt' = IF vt = "unknown" THEN "queued" ELSE vt
                      /\ call' = [call EXCEPT ![c].pc = "poll", ![c].retries = 0]
                 ELSE /\ returns(c, Scan(TRUE, "error"))
                      /\ UNCHANGED vt

\* the catch block of getScanReport's loop
pollFailed(c) ==
  IF call[c].retries >= MAX_RETRIES - 1
    THEN returns(c, Scan(TRUE, "error"))
    ELSE call' = [call EXCEPT ![c].retries = @ + 1,
                              ![c].wait = ERROR_WAIT,
                              ![c].wake = now' + ERROR_WAIT]

\* a response_code -2 branch that never gives up by itself
pollQueuedOn(c) ==
  call' = [call EXCEPT
             ![c].retries = @ + 1,
             ![c].wait = Min(POLL_WAIT + (call[c].retries + 1) * POLL_WAIT_STEP,
                             POLL_WAIT_MAX),
             ![c].wake = now' + Min(POLL_WAIT + (call[c].retries + 1) * POLL_WAIT_STEP,
                                    POLL_WAIT_MAX)]

\* response_code -2: the analysis is still queued
pollQueued(c) ==
  IF call[c].retries + 1 >= MAX_RETRIES
    THEN returns(c, Scan(TRUE, "error"))
    ELSE call' = [call EXCEPT
                    ![c].retries = @ + 1,
                    ![c].wait = Min(POLL_WAIT + (call[c].retries + 1) * POLL_WAIT_STEP,
                                    POLL_WAIT_MAX),
                    ![c].wake = now' + Min(POLL_WAIT + (call[c].retries + 1) * POLL_WAIT_STEP,
                                           POLL_WAIT_MAX)]

\* one turn of the loop of getScanReport
pollTurn(c, answered) ==
  /\ call[c].pc = "poll"
  /\ call[c].retries < MAX_RETRIES
  /\ rateLimited(c)
  /\ IF countToday >= DAILY_LIMIT
       THEN pollFailed(c) /\ UNCHANGED sent
       ELSE /\ sent' = [sent EXCEPT !.poll = @ + 1]
            /\ IF ~answered THEN pollFailed(c)
               ELSE IF hasReport THEN returns(c, reportVerdict)
               ELSE pollQueued(c)
  /\ UNCHANGED vt

\* getScanReport while the model's budget of requests lasts
getScanReport(c, answered) ==
  /\ RequestsSent < MaxRequests \/ countToday >= DAILY_LIMIT
  /\ pollTurn(c, answered)

\* VirusTotal finishes the analysis of the queued file
analysisDone(verdict) ==
  /\ vt = "queued"
  /\ vt' = verdict
  /\ UNCHANGED <<scanVars, call, sent>>

\* uploadProjectCodeController after its await of scanWithVirusTotal
codeUploadScanned(c, hasProjectId) ==
  /\ call[c].pc = "done"
  /\ uploadProjectCodeController(hasProjectId, call[c].result)
  /\ call' = [call EXCEPT ![c] = IdleCall]
  /\ UNCHANGED <<concVars, scanVars, vt, sent, reportVars, deleteThrows, infoThrows>>

\* a pending project; the service after start, late in a day, or at the ceiling
InitVT ==
  /\ db = PendingDoc
  /\ storage = {}
  /\ resp = Response("none", 0)
  /\ IdleConc
  /\ now = RATE_LIMIT_DELAY
  /\ lastRequestTime = 0
  /\ dailyRequestCount \in {0, DAILY_LIMIT - 2, DAILY_LIMIT}
  /\ lastResetDate = 0
  /\ currentDate = 0
  /\ scanPc = [c \in Callers |-> "idle"]
  /\ wakeAt = [c \in Callers |-> 0]
  /\ dispatched = <<>>
  /\ IdleVT
  /\ IdleReport
  /\ deleteThrows = FALSE
  /\ infoThrows = FALSE

NextVT ==
  \/ \E c \in Callers : scanWithVirusTotal(c) /\ UNCHANGED <<lifecycleVars, concVars, reportVars, deleteThrows, infoThrows>>
  \/ \E c \in Callers, a \in BOOLEAN :
       checkHashReport(c, a) /\ UNCHANGED <<lifecycleVars, concVars, reportVars, deleteThrows, infoThrows>>
  \/ \E c \in Callers, a \in BOOLEAN :
       uploadFileForScan(c, a) /\ UNCHANGED <<lifecycleVars, concVars, reportVars, deleteThrows, infoThrows>>
  \/ \E c \in Callers, a \in BOOLEAN :
       getScanReport(c, a) /\ UNCHANGED <<lifecycleVars, concVars, reportVars, deleteThrows, infoThrows>>
  \/ \E v \in {"clean", "infected"} :
       analysisDone(v) /\ UNCHANGED <<lifecycleVars, concVars, reportVars, deleteThrows, infoThrows>>
  \/ \E c \in Callers, hasProjectId \in BOOLEAN : codeUploadScanned(c, hasProjectId)
  \/ Midnight /\ UNCHANGED <<lifecycleVars, concVars, vtVars, reportVars, deleteThrows, infoThrows>>

SpecVT == InitVT /\ [][NextVT]_vars

(* One scanWithVirusTotal call followed to its return: the poll loop runs as
   long as getScanReport lets it.  The event loop resumes the call whenever
   its await is over. *)
PollCaller == 1

InitPoll ==
  /\ db = NoDoc
  /\ storage = {}
  /\ resp = Response("none", 0)
  /\ IdleConc
  /\ now = RATE_LIMIT_DELAY
  /\ lastRequestTime = 0
  /\ dailyRequestCount \in {0, DAILY_LIMIT - 6}
  /\ lastResetDate = 0
  /\ currentDate = 0
  /\ scanPc = [c \in Callers |-> "idle"]
  /\ wakeAt = [c \in Callers |-> 0]
  /\ dispatched = <<>>
  /\ IdleVT
  /\ IdleReport
  /\ deleteThrows = FALSE
  /\ infoThrows = FALSE

CallSteps ==
  \/ scanWithVirusTotal(PollCaller) /\ UNCHANGED <<lifecycleVars, concVars, reportVars, deleteThrows, infoThrows>>
  \/ \E a \in BOOLEAN :
       checkHashReport(PollCaller, a) /\ UNCHANGED <<lifecycleVars, concVars, reportVars, deleteThrows, infoThrows>>
  \/ \E a \in BOOLEAN :
       uploadFileForScan(PollCaller, a) /\ UNCHANGED <<lifecycleVars, concVars, reportVars, deleteThrows, infoThrows>>
  \/ \E a \in BOOLEAN :
       pollTurn(PollCaller, a) /\ UNCHANGED <<lifecycleVars, concVars, reportVars, deleteThrows, infoThrows>>

NextPoll ==
  \/ CallSteps
  \/ \E v \in {"clean", "infected"} :
       analysisDone(v) /\ UNCHANGED <<lifecycleVars, concVars, reportVars, deleteThrows, infoThrows>>

SpecPoll == InitPoll /\ [][NextPoll]_vars /\ WF_vars(CallSteps)

----------------------------------------------------------------------------
(* Properties of the lifecycle *)

\* the recorded verdict of a file says it is unsafe
Unsafe(f) == f.virusScan.present /\ ~f.virusScan.isSafe

\* C1: no published project has a code or docPdf file whose recorded scan
\* verdict has isSafe = false
C1_PublishedFilesSafe ==
  (db.exists /\ db.status = "published")
    => ~Unsafe(db.files.code) /\ ~Unsafe(db.files.docPdf)

\* C2: draftStatus # none implies status = published
C2_DraftOnlyWhenPublished ==
  (db.exists /\ db.draftStatus # "none") => db.status = "published"

StatusEdges ==
  {<<"pending", "needs_author_review">>, <<"needs_author_review", "pending">>,
   <<"pending", "published">>, <<"pending", "rejected">>, <<"rejected", "pending">>}

\* C3: every change of status follows an edge of StatusEdges; sendToAuthor,
\* publishProject and rejectProject on a project that is not pending leave the
\* status as it was
C3_StatusFollowsEdges ==
  [][(db.exists /\ db'.status # db.status)
       => <<db.status, db'.status>> \in StatusEdges]_vars

Permanent(h) == Handle("projects", h.kind, h.name)

C6_FailedBatchLeavesStorage ==
  [][(resp'.op \in {"publishProject", "approveDraft"} /\ resp'.fault)
       => storage' = storage]_vars

\* C7: when a move of approveDraft fails no live asset is deleted, and the
\* persisted live fields, draft and draftStatus are unchanged
C7_FailedApproveKeepsLive ==
  [][(resp'.op = "approveDraft" /\ resp'.fault)
       => /\ \A h \in LiveRefs(db) : h \in storage => h \in storage'
          /\ db' = db]_vars

\* C8: a successful updateProject by a non-admin author on a published project
\* leaves the live fields and the status as they were, stores the proposal in
\* draft and sets draftStatus = pending
C8_AuthorEditGoesToDraft ==
  [][(resp'.op = "updateProject" /\ ~resp'.admin /\ resp'.code = 200
        /\ db.status = "published")
       => /\ Live(db') = Live(db)
          /\ db'.status = db.status
          /\ db'.draft # NoDraft
          /\ db'.draftStatus = "pending"]_vars

C8_Witness ==
  /\ resp.op = "updateProject" /\ ~resp.admin /\ resp.code = 200
  /\ db.status = "published" /\ db.draftStatus = "pending"
  /\ db.draft.shortDesc = "d2" /\ db.shortDesc = "d1"

----------------------------------------------------------------------------
(* Properties of interleaved requests and of the rate limiter *)

\* C9: of two transitions that passed their check on the same persisted state
\* at most one commits its write
C9_AtMostOneCommits ==
  ~(/\ pc[1] = "done" /\ pc[2] = "done"
    /\ loaded[1].rev = loaded[2].rev)

\* C10: any two requests sent to VirusTotal are at least RATE_LIMIT_DELAY
\* apart, so that N requests span at least (N-1) x RATE_LIMIT_DELAY
C10_RequestsSpaced ==
  \A i, j \in DOMAIN dispatched :
    i < j => dispatched[j] - dispatched[i] >= (j - i) * RATE_LIMIT_DELAY

\* C11: the requests counted within one day never exceed the daily ceiling
C11_DailyCeiling == dailyRequestCount <= DAILY_LIMIT

\* C12: calls of scanWithVirusTotal on byte-identical buffers issue at most one
\* submit request between them; the others get the verdict by the hash lookup
C12_AtMostOneSubmit == sent.submit <= 1

LimitVerdict == Scan(TRUE, "daily-limit-reached")

\* C13: a scan call that starts with the daily counter at its ceiling sends no
\* request and returns isSafe = true with the marker scanId; the upload
\* controller that made the call stores the file and answers 200 with that
\* verdict
C13_FailOpenAtCeiling ==
  [][\A c \in Callers :
       /\ (call[c].pc = "idle" /\ call'[c].pc # "idle"
             /\ dailyRequestCount >= DAILY_LIMIT)
            => /\ call'[c].pc = "done" /\ call'[c].result = LimitVerdict
               /\ sent' = sent /\ dispatched' = dispatched
       /\ (call[c].pc = "done" /\ call[c].result = LimitVerdict /\ call'[c].pc = "idle")
            => /\ resp'.op = "uploadProjectCode" /\ resp'.code = 200
               /\ resp'.scanId = LimitVerdict.scanId
               /\ \E h \in storage' \ storage : h.kind = "code"
               /\ db'.files.code # db.files.code
                    => /\ db'.files.code.virusScan = LimitVerdict
                       /\ db'.files.code.publicId \in storage']_vars

C13_Witness ==
  /\ dailyRequestCount >= DAILY_LIMIT
  /\ RequestsSent = 0
  /\ resp.op = "uploadProjectCode" /\ resp.code = 200
  /\ resp.scanId = LimitVerdict.scanId
  /\ db.files.code.virusScan = LimitVerdict
  /\ db.files.code.publicId \in storage

\* C14: when createProjectWithFiles fails after it created the document, the
\* document does not exist afterwards and no file the request uploaded is left
\* in storage
C14_FailedCreateLeavesNothing ==
  [][(resp'.op = "createProjectWithFiles" /\ resp'.code = 400 /\ resp'.fault
        /\ ~db.exists)
       => ~db'.exists /\ storage' \subseteq storage]_vars

C16_RejectedDraftFilesGone ==
  [][(resp'.op = "rejectDraft" /\ resp'.code = 200 /\ hasPendingDraft(db))
       => \A h \in DraftRefs(db) \ LiveRefs(db) : h \notin storage']_vars

\* the pending draft of p carries a code file other than the live one
ReplacesCode(p) ==
  /\ hasPendingDraft(p)
  /\ p.files.code.publicId # NoHandle
  /\ p.draft.files.code.publicId # NoHandle
  /\ p.draft.files.code.publicId # p.files.code.publicId

\* C17: when approveDraft succeeds on a draft that replaces the code file, the
\* old code object is gone from storage, files.code.publicId is a public id
\* under softstore/projects/ and that object is stored
C17_OldCodeGoneNewResolves ==
  [][(resp'.op = "approveDraft" /\ resp'.code = 200 /\ ~resp'.fault /\ ReplacesCode(db))
       => /\ db.files.code.publicId \notin storage'
          /\ db'.files.code.publicId.loc = "projects"
          /\ db'.files.code.publicId \in storage']_vars

\* the draft of p carries a short description and nothing else
OnlyShortDesc(p) ==
  /\ p.draft.shortDesc # "undef"
  /\ [p.draft EXCEPT !.shortDesc = "undef"] = NoDraft

\* C18: approveDraft on a pending draft that carries only shortDesc changes
\* shortDesc and the draft bookkeeping; icon, images, files and status are as
\* before and nothing is moved or deleted in storage
C18_DescriptionOnlyDraft ==
  [][(resp'.op = "approveDraft" /\ hasPendingDraft(db) /\ OnlyShortDesc(db))
       => /\ db'.shortDesc = db.draft.shortDesc
          /\ [Live(db') EXCEPT !.shortDesc = db.shortDesc] = Live(db)
          /\ db'.status = db.status /\ db'.publishedAt = db.publishedAt
          /\ db'.draft = NoDraft /\ db'.draftStatus = "none"
          /\ storage' = storage]_vars

C18_Witness ==
  /\ resp.op = "approveDraft" /\ resp.code = 200
  /\ db.shortDesc = "d2" /\ db.draftStatus = "none"
  /\ db.files.code.publicId \in storage
  /\ db.files.docPdf.publicId \in storage

\* some field the draft d sets differs from the live value of p
DraftDiffers(p, d) ==
  \/ d.shortDesc \notin {"undef", p.shortDesc}
  \/ d.iconPublicId \notin {NoHandle, p.iconPublicId}
  \/ d.imagePublicIds # p.imagePublicIds
  \/ d.hasFiles /\ d.files # p.files

\* C19: updateProject by a non-admin author on a published project succeeds
\* only when the request differs from the live fields; a request that differs
\* in nothing (a files entry equal to the live file included) is refused and
\* leaves the document as it was
C19_NoChangesRefused ==
  [][(resp'.op = "updateProject" /\ ~resp'.admin /\ db.status = "published")
       => IF resp'.code = 200 THEN DraftDiffers(db, db'.draft) ELSE db' = db]_vars

\* C20: a failure of the notification neither undoes a transition nor changes
\* the answer: createProjectWithFiles whose scans, uploads and saves all
\* succeeded leaves the project created and answers 201, whether or not the
\* notification could be created
C20_NotificationNeverBlocks ==
  [][(resp'.op = "createProjectWithFiles" /\ ~resp'.fault /\ ~db.exists)
       => db'.exists /\ resp'.code = 201]_vars

\* C21: a failed move leaves approveDraft retryable: the persisted draft is
\* still pending and every object it references that was stored before the
\* call is stored after it
C21_FailedApproveRetryable ==
  [][(resp'.op = "approveDraft" /\ resp'.fault)
       => /\ hasPendingDraft(db')
          /\ \A h \in DraftRefs(db') : h \in storage => h \in storage']_vars

\* Project.areFilesSafe
areFilesSafe(p) == ~Unsafe(p.files.code) /\ ~Unsafe(p.files.docPdf)

\* the file is there and its recorded verdict is present and safe (an
\* administrator's override records such a verdict)
Trusted(f) == f.publicId # NoHandle => f.virusScan.present /\ f.virusScan.isSafe

\* C22: areFilesSafe() is true only if the code and docPdf files that are
\* present each have a verdict that is present and safe
C22_SafeOnlyWhenScanned ==
  (db.exists /\ areFilesSafe(db)) => Trusted(db.files.code) /\ Trusted(db.files.docPdf)

\* C23: no app file is ever uploaded to object storage
C23_NoAppInStorage == \A h \in storage : h.kind # "apps"

\* C24: once the persisted status is published, an upload that names the
\* project changes none of the live fields, and the file it stores goes to
\* softstore/updates/<id>/<kind>
C24_UploadLeavesPublishedLive ==
  [][(db.exists /\ db.status = "published")
       => /\ Live(db') = Live(db)
          /\ \A h \in storage' \ storage : h.loc = "updates"]_vars

\* C25: clearRejectedDraft on a draft that is not rejected answers an error and
\* changes nothing; on a rejected draft it sets draftStatus = none, removes
\* draft, draftFeedback, draftRejectedAt and draftSubmittedAt, and leaves the
\* live fields, the status and the storage as they were
C25_ClearRejectedDraftFrame ==
  [][(resp'.op = "clearRejectedDraft")
       => IF db.draftStatus = "rejected"
            THEN /\ resp'.code = 200
                 /\ db'.draftStatus = "none" /\ db'.draft = NoDraft
                 /\ ~db'.draftFeedback /\ ~db'.draftRejected /\ ~db'.draftSubmitted
                 /\ Live(db') = Live(db) /\ db'.status = db.status
                 /\ storage' = storage
            ELSE /\ resp'.code = 400
                 /\ db' = db /\ storage' = storage]_vars

C25_Witness ==
  /\ resp.op = "clearRejectedDraft" /\ resp.code = 200
  /\ db.draftStatus = "none" /\ db.draft = NoDraft
  /\ db.status = "published"
  /\ db.iconPublicId = LiveIcon /\ LiveIcon \in storage

\* C26: when an author's updateProject replaces a pending or rejected draft,
\* every object under softstore/updates/ that the replaced draft referenced
\* and the live fields do not is referenced by the new draft or gone from
\* storage
C26_ReplacedDraftNoOrphans ==
  [][(resp'.op = "updateProject" /\ ~resp'.admin /\ resp'.code = 200
        /\ db.status = "published" /\ db.draftStatus \in {"pending", "rejected"})
       => \A h \in DraftRefs(db) \ LiveRefs(db) :
            IsUpdates(h) => h \in DraftRefs(db') \/ h \notin storage']_vars

\* C27: the daily counter is reset when the date changes: a scan call that
\* starts on a later day than the one the counter belongs to goes on to the
\* hash lookup instead of answering with the daily-limit result
C27_CounterResetsAtRollover ==
  [][\A c \in Callers :
       (call[c].pc = "idle" /\ call'[c].pc # "idle" /\ lastResetDate # currentDate)
         => call'[c].pc = "lookup"]_vars

\* the call of PollCaller has returned
Returned == call[PollCaller].pc = "done"

\* C28: a scanWithVirusTotal call sends at most MAX_RETRIES report requests,
\* returns in the end, and returns a result: the verdict of the report when it
\* got one, a fail-open result (isSafe = true, no real scan id) otherwise
C28_ScanCallReturns ==
  /\ [](sent.poll <= MAX_RETRIES)
  /\ [](Returned => /\ call[PollCaller].result.present
                    /\ IF call[PollCaller].result.scanId = "real"
                         THEN hasReport /\ call[PollCaller].result = reportVerdict
                         ELSE call[PollCaller].result.isSafe)
  /\ <>Returned

\* the retries were used up by report requests and the call failed open
C28_Witness ==
  /\ Returned
  /\ sent.poll = MAX_RETRIES
  /\ call[PollCaller].result = Scan(TRUE, "error")

\* C29: in one poll loop the wait before a retry is at least the wait before
\* the retry that preceded it and at most POLL_WAIT_MAX, and every report
\* request leaves at least RATE_LIMIT_DELAY after the request before it
C29_BackoffGrows ==
  [][/\ (call[PollCaller].pc = "poll" /\ call'[PollCaller].pc = "poll"
          /\ call'[PollCaller].retries > call[PollCaller].retries)
         => /\ call'[PollCaller].wait <= POLL_WAIT_MAX
            /\ call[PollCaller].retries > 0
                 => call'[PollCaller].wait >= call[PollCaller].wait
     /\ sent'.poll > sent.poll => now' - lastRequestTime >= RATE_LIMIT_DELAY]_vars


----------------------------------------------------------------------------
(* Normalisation of a VirusTotal report into a scan result *)

MaxEngines == 3
Engines == 1..MaxEngines

\* result?: string of an engine's entry: missing or empty, or a signature name
NoResult == ""
EngineResults == {NoResult, "Trojan"}

\* scans of VirusTotalReportResponse
Scans == [Engines -> [detected : BOOLEAN, result : EngineResults]]

Flagging(scans) == {e \in Engines : scans[e].detected}

\* the reports VirusTotal answers with: positives counts the engines that detected
Reports ==
  {[present |-> TRUE, positives |-> Cardinality(Flagging(s)), total |-> MaxEngines,
    scans |-> s] : s \in Scans}

RECURSIVE threatsUpTo(_, _)
threatsUpTo(scans, n) ==
  IF n = 0 THEN <<>>
  ELSE LET result == scans[n]
           before == threatsUpTo(scans, n - 1)
       IN IF result.detected /\ result.result # NoResult
            THEN Append(before, [engineName |-> n, result |-> result.result])
            ELSE before

processEngineResults(scans) == threatsUpTo(scans, MaxEngines)

\* the result scanWithVirusTotal builds from the report it obtained
normalise(r) ==
  [present |-> TRUE,
   isSafe |-> r.positives = 0,
   threats |-> processEngineResults(r.scans),
   positives |-> r.positives,
   total |-> r.total]

\* scanWithVirusTotal from "Procesar resultados" on
processReport ==
  /\ report.present
  /\ ~scanResult.present
  /\ scanResult' = normalise(report)
  /\ UNCHANGED <<lifecycleVars, concVars, scanVars, vtVars, report, deleteThrows, infoThrows>>

\* scanWithVirusTotal obtains the report, from checkHashReport or getScanReport
obtainReport ==
  /\ ~report.present
  /\ report' \in Reports
  /\ UNCHANGED <<lifecycleVars, concVars, scanVars, vtVars, scanResult, deleteThrows, infoThrows>>

NextReport == obtainReport \/ processReport

SpecReport == Init /\ [][NextReport]_vars

\* C30: the result made from a report is safe exactly when no engine of the
\* report detected something, its threats hold one entry for each engine that
\* detected and none for another, and so it is safe exactly when its threats
\* are empty.
C30_VerdictMatchesEngines ==
  scanResult.present
    => /\ scanResult.isSafe <=> Flagging(report.scans) = {}
       /\ Len(scanResult.threats) = Cardinality(Flagging(report.scans))
       /\ {scanResult.threats[i].engineName : i \in 1..Len(scanResult.threats)}
            = Flagging(report.scans)
       /\ scanResult.isSafe <=> scanResult.threats = <<>>


\* C31: a call of scanWithVirusTotal sends nothing before its hash lookup, and
\* when the lookup finds a report the call returns the verdict of that report
\* having sent the one lookup request, no submit and no poll request, with the
\* daily counter one above the counter the request found.
C31_KnownHashOnlyLookup ==
  [][\A c \in Callers :
       /\ (call[c].pc = "idle" /\ call'[c].pc = "lookup")
            => sent' = sent /\ dailyRequestCount' = dailyRequestCount
       /\ (call[c].pc = "lookup" /\ call'[c].pc = "done")
            => /\ hasReport
               /\ call'[c].result = reportVerdict
               /\ sent' = [sent EXCEPT !.lookup = @ + 1]
               /\ dailyRequestCount' = countToday + 1]_vars

\* a second call returned the report of the file the first call submitted,
\* while the first is still waiting to poll
C31_Witness ==
  \E c, d \in Callers :
    /\ call[c].pc = "done" /\ call[c].result = reportVerdict
    /\ call[d].pc = "poll"
    /\ sent = [lookup |-> 2, submit |-> 1, poll |-> 0]


\* C32: the draft an author's updateProject stores on a published project
\* carries a text field, the icon, the images, the code file or the document
\* only with a value that differs from the live one; a kind the request left
\* out is absent from the draft.
C32_DraftHoldsOnlyProposedKinds ==
  [][(resp'.op = "updateProject" /\ ~resp'.admin /\ resp'.code = 200
        /\ db.status = "published")
       => /\ db'.draft.shortDesc \in {"undef"} \/ db'.draft.shortDesc # db.shortDesc
          /\ db'.draft.iconPublicId = NoHandle
               \/ db'.draft.iconPublicId # db.iconPublicId
          /\ db'.draft.imagePublicIds = <<>>
               \/ db'.draft.imagePublicIds # db.imagePublicIds
          /\ db'.draft.files.code = NoFile \/ db'.draft.files.code # db.files.code
          /\ db'.draft.files.docPdf = NoFile
               \/ db'.draft.files.docPdf # db.files.docPdf]_vars


----------------------------------------------------------------------------
(* Discarding assets while the destroy calls of Cloudinary may fail *)

\* Cloudinary's destroy starts or stops failing
destroyOutage ==
  /\ deleteThrows' = ~deleteThrows
  /\ UNCHANGED <<lifecycleVars, concVars, scanVars, vtVars, reportVars, infoThrows>>

\* no project yet, or a project published with an icon
InitDiscard ==
  /\ \/ db = NoDoc /\ storage = {}
     \/ /\ db = [markPublished(PendingDoc) EXCEPT !.iconPublicId = LiveIcon,
                                                 !.iconUrl = LiveIcon]
        /\ storage = {LiveIcon}
  /\ resp = Response("none", 0)
  /\ IdleConc
  /\ IdleScan
  /\ IdleVT
  /\ IdleReport
  /\ deleteThrows = FALSE
  /\ infoThrows = FALSE

NextDiscard ==
  \/ Lifecycle(\E files \in {f \in FileSets : f.images = 0 /\ ~f.code /\ ~f.doc /\ ~f.app},
                   fault \in {"none", "save"} :
                 createProjectWithFiles(files, "none", fault, TRUE))
  \/ Lifecycle(uploadProjectIcon(TRUE))
  \/ Lifecycle(\E body \in UpdateBodies(storage, ClientVerdicts), admin \in BOOLEAN :
                 updateProject(body, admin))
  \/ Lifecycle(\E f \in FaultMaps(DraftStaged) : approveDraft(f, TRUE))
  \/ Lifecycle(rejectDraft(TRUE))
  \/ destroyOutage

SpecDiscard == InitDiscard /\ [][NextDiscard]_vars


\* C33: a deletion that fails while assets are discarded reaches neither the
\* document nor the answer: with the destroy calls failing, rejectDraft still
\* marks the draft rejected and answers 200, approveDraft whose moves worked
\* still applies and clears the draft and answers 200, the rollback of
\* createProjectWithFiles still leaves no project and answers 400, and the
\* direct edit of updateProject still writes the body and answers 200, as
\* they do when the deletions succeed.
C33_FailedDeletionInvisible ==
  [][(deleteThrows /\ deleteThrows')
       => /\ (resp'.op = "rejectDraft" /\ hasPendingDraft(db))
               => db' = markDraftRejected(db) /\ resp' = Response("rejectDraft", 200)
          /\ (resp'.op = "approveDraft" /\ hasPendingDraft(db) /\ ~resp'.fault)
               => /\ \E f \in FaultMaps(DraftStaged) :
                       /\ ~approveMoves(db, storage, f).failed
                       /\ db' = clearDraft(approveMoves(db, storage, f).doc)
                  /\ resp' = Response("approveDraft", 200)
          /\ (resp'.op = "createProjectWithFiles" /\ resp'.fault)
               => db' = NoDoc /\ resp'.code = 400
          /\ (resp'.op = "updateProject" /\ (resp'.admin \/ db.status # "published"))
               => /\ \E body \in UpdateBodies(storage, ClientVerdicts) :
                       db' = directEdit(db, storage, body)
                  /\ resp'.code = 200]_vars

\* a draft that replaced the icon was rejected while the destroy calls failed:
\* the draft's icon is still stored
C33_Witness ==
  /\ deleteThrows
  /\ resp = Response("rejectDraft", 200)
  /\ db.draftStatus = "rejected"
  /\ db.draft.iconPublicId \in storage
  /\ db.draft.iconPublicId # db.iconPublicId


\* C34: a deletion that failed while assets were discarded is tried again, so
\* that once the destroy calls work again no asset of a rejected draft is left
\* in storage.
C34_FailedDeletionRetried ==
  (~deleteThrows /\ resp = Response("rejectDraft", 200) /\ db.draftStatus = "rejected")
    => \A h \in DraftRefs(db) \ LiveRefs(db) : h \notin storage


\* C35: when the direct edit of updateProject replaces a live asset by another
\* one and the destroy calls work, the asset it replaced is no longer in
\* storage afterwards.
C35_DirectEditDeletesReplaced ==
  [][(resp'.op = "updateProject" /\ resp'.code = 200
        /\ (resp'.admin \/ db.status # "published")
        /\ ~deleteThrows /\ ~deleteThrows')
       => \A h \in LiveRefs(db) \ LiveRefs(db') : h \notin storage']_vars


\* C36: every public id the live fields of the project reference names an
\* object in storage.
C36_LiveHandlesResolve == db.exists => LiveRefs(db) \subseteq storage


\* C37: once publishProject or approveDraft has moved an asset and saved, the
\* url stored for the asset is the url of the handle it was moved to: for the
\* icon, every image, the code file and the document.
C37_MovedAssetHasNewUrl ==
  [][(resp'.op \in {"publishProject", "approveDraft"} /\ resp'.code = 200)
       => /\ db'.iconPublicId \notin {NoHandle, db.iconPublicId}
               => db'.iconUrl = db'.iconPublicId
          /\ \A i \in DOMAIN db'.imagePublicIds :
               db'.imagePublicIds[i] \notin Range(db.imagePublicIds)
                 => urlAt(db'.imageUrls, i) = db'.imagePublicIds[i]
          /\ db'.files.code.publicId \notin {NoHandle, db.files.code.publicId}
               => db'.files.code.url = db'.files.code.publicId
          /\ db'.files.docPdf.publicId \notin {NoHandle, db.files.docPdf.publicId}
               => db'.files.docPdf.url = db'.files.docPdf.publicId]_vars


----------------------------------------------------------------------------
(* Images of a published project while the lookups of getFileInfo may fail *)

\* Cloudinary's resource lookup starts or stops failing
lookupOutage ==
  /\ infoThrows' = ~infoThrows
  /\ UNCHANGED <<lifecycleVars, concVars, scanVars, vtVars, reportVars, deleteThrows>>

NextLookup ==
  \/ Lifecycle(uploadProjectImages(TRUE))
  \/ Lifecycle(\E body \in UpdateBodies(storage, ClientVerdicts), admin \in BOOLEAN :
                 updateProject(body, admin))
  \/ Lifecycle(\E f \in FaultMaps(DraftStaged) : approveDraft(f, TRUE))
  \/ lookupOutage

SpecLookup == InitReview /\ [][NextLookup]_vars

\* C38: after publishProject, approveDraft or the direct edit of updateProject
\* has saved, imagePublicIds and imageUrls have the same length and the url
\* at each index is the url of the public id at that index.
C38_ImageUrlsAligned ==
  [][(/\ resp'.code = 200
      /\ \/ resp'.op \in {"publishProject", "approveDraft"}
         \/ resp'.op = "updateProject" /\ (resp'.admin \/ db.status # "published"))
       => /\ Len(db'.imageUrls) = Len(db'.imagePublicIds)
          /\ \A i \in DOMAIN db'.imagePublicIds :
               urlAt(db'.imageUrls, i) = db'.imagePublicIds[i]]_vars


\* C39: the draft and draftStatus of a project change only by an author's
\* updateProject on the published project (none, rejected or pending to
\* pending), by approveDraft (pending to none), by rejectDraft (pending to
\* rejected) and by clearRejectedDraft (rejected to none).
C39_DraftStatusEdges ==
  [][(db.exists /\ db'.exists
        /\ (db'.draftStatus # db.draftStatus \/ db'.draft # db.draft))
       => \/ /\ resp'.op = "updateProject" /\ ~resp'.admin /\ db.status = "published"
             /\ db'.draftStatus = "pending"
          \/ /\ resp'.op = "approveDraft"
             /\ db.draftStatus = "pending" /\ db'.draftStatus = "none"
          \/ /\ resp'.op = "rejectDraft"
             /\ db.draftStatus = "pending" /\ db'.draftStatus = "rejected"
             /\ db'.draft = db.draft
          \/ /\ resp'.op = "clearRejectedDraft"
             /\ db.draftStatus = "rejected" /\ db'.draftStatus = "none"]_vars


\* an author's updateProject on the published project stored a draft: it is
\* pending and carries no mark of a rejection
C39_Witness ==
  /\ resp.op = "updateProject" /\ resp.code = 200 /\ ~resp.admin
  /\ db.status = "published" /\ db.draftStatus = "pending"
  /\ db.draft.shortDesc = "d2" /\ db.draft.hasFiles
  /\ ~db.draftRejected /\ ~db.draftFeedback


----------------------------------------------------------------------------
(* Uploads without a project, and DELETE /files/:fileId *)

\* deleteFileController: 200 unless deleteFromCloudinary throws
deleteFileController(fileId) ==
  /\ storage' = deleteFromCloudinary(storage, fileId)
  /\ resp' = Response("deleteFile", IF deleteThrows THEN 500 ELSE 200)
  /\ UNCHANGED db

\* files are uploaded to the temp folder and deleted again by their public id
NextFiles ==
  \/ Lifecycle(uploadProjectIcon(FALSE))
  \/ Lifecycle(uploadProjectImages(FALSE))
  \/ Lifecycle(uploadProjectCodeController(FALSE, Scan(TRUE, "real")))
  \/ Lifecycle(uploadProjectDocController(FALSE, Scan(TRUE, "real")))
  \/ Lifecycle(\E fileId \in storage : deleteFileController(fileId))
  \/ destroyOutage

SpecFiles == Init /\ [][NextFiles]_vars

\* C40: a deleteFromCloudinary call on the public id of a stored object that
\* returns without an error has removed the object: whenever the deletion
\* of a file answers 200, an object has left the storage.
C40_DeleteRemovesObject ==
  [][(resp'.op = "deleteFile" /\ resp'.code = 200 /\ deleteThrows' = deleteThrows)
       => storage' # storage /\ storage' \subseteq storage]_vars

====
